---- MODULE Spec2Model ----
(***************************************************************************)
(* The resume-to-application-artifacts pipeline of smartapply-ai:          *)
(*   - the server handler  app.post("/api/analyze-resume")  (server/index) *)
(*   - the client component ResumeAnalyzer (handleFileUpload,              *)
(*     handleAnalyze, handleGenerateCoverLetter).                          *)
(*                                                                         *)
(* Encoding of JavaScript values.  A JSON/JS value is a record             *)
(* [t |-> type tag, v |-> payload]; the payload of a string is the         *)
(* sequence of its chunks (a chunk " " is whitespace, any other chunk is   *)
(* non-blank text), the payload of an array is the sequence of its         *)
(* elements (an element in NumberElems is a number, any other a string).   *)
(***************************************************************************)
EXTENDS Integers, Sequences, FiniteSets, TLC

\* ------------------------------------------------------------------ bounds
\* Number of requests a direct caller of the HTTP API issues in one behaviour.
MaxApiRequests == 2
\* Number of runs (full or cover-letter-only) the user starts in one behaviour.
MaxRuns == 2
\* Number of documents the user picks or drops in one behaviour.
MaxUploads == 1
\* The same, in the behaviours of the upload area alone.
MaxPicks == 2
\* Number of requests sent to the server whose generation client is a stub.
MaxStubRequests == 3

\* ------------------------------------------------------------- JS values
Undefined == [t |-> "undefined", v |-> <<>>]
Null == [t |-> "null", v |-> <<>>]
Str(s) == [t |-> "string", v |-> s]
Arr(a) == [t |-> "array", v |-> a]
\* a number, written as one chunk ("#5")
Num(n) == [t |-> "number", v |-> <<n>>]

\* Array.isArray(x)
IsArray(x) == x.t = "array"
\* typeof x === "string"
IsString(x) == x.t = "string"
\* JavaScript truthiness of a value: undefined, null, "" and 0 are falsy.
Truthy(x) == \/ x.t = "array"
             \/ x.t = "string" /\ x.v # <<>>
             \/ x.t = "number" /\ x.v # <<"#0">>

\* The whitespace chunks: a run of blanks and the line feed.
Whitespace == {" ", "\n"}
RECURSIVE TrimStart(_)
TrimStart(s) == IF s # <<>> /\ Head(s) \in Whitespace THEN TrimStart(Tail(s)) ELSE s
RECURSIVE TrimEnd(_)
TrimEnd(s) == IF s # <<>> /\ s[Len(s)] \in Whitespace
              THEN TrimEnd(SubSeq(s, 1, Len(s) - 1)) ELSE s
\* String.prototype.trim on a chunk sequence
trim(s) == TrimEnd(TrimStart(s))

\* String.prototype.includes(phrase) for a phrase that is one chunk
includes(s, phrase) == \E i \in DOMAIN s : s[i] = phrase

\* String.prototype.indexOf / lastIndexOf (0-based, -1 when not found)
indexOf(s, c) == IF \E i \in DOMAIN s : s[i] = c
                 THEN (CHOOSE i \in DOMAIN s :
                         s[i] = c /\ \A j \in DOMAIN s : s[j] = c => i <= j) - 1
                 ELSE -1
lastIndexOf(s, c) == IF \E i \in DOMAIN s : s[i] = c
                     THEN (CHOOSE i \in DOMAIN s :
                             s[i] = c /\ \A j \in DOMAIN s : s[j] = c => j <= i) - 1
                     ELSE -1
\* String.prototype.slice(from, to) with 0-based from and exclusive to
slice(s, from, to) == SubSeq(s, from + 1, to)

\* --------------------------------------------------------- JSON.parse
\* The text of the analysis reply is a sequence of chunks: "{", "}", ",",
\* member chunks ("key":value) and prose.  MemberKey/MemberValue give the
\* key and the value a member chunk denotes.
NumberElems == {"#1"}
Members == {"S=[a]", "S=[a,#1]", "S='a'", "I=[]", "I=[x]", "T=[b,c]", "X=1"}
MemberKey(m) == CASE m \in {"S=[a]", "S=[a,#1]", "S='a'"} -> "strengths"
                  [] m \in {"I=[]", "I=[x]"} -> "improvements"
                  [] m = "T=[b,c]" -> "tailoring"
                  [] OTHER -> "extra"
MemberValue(m) == CASE m = "S=[a]" -> Arr(<<"a">>)
                    [] m = "S=[a,#1]" -> Arr(<<"a", "#1">>)
                    [] m = "S='a'" -> Str(<<"a">>)
                    [] m = "I=[]" -> Arr(<<>>)
                    [] m = "I=[x]" -> Arr(<<"x">>)
                    [] m = "T=[b,c]" -> Arr(<<"b", "c">>)
                    [] OTHER -> [t |-> "number", v |-> <<>>]

\* The chunks strictly between the braces form  member ("," member)*  or nothing.
MemberList(inner) ==
    \/ inner = <<>>
    \/ /\ Len(inner) % 2 = 1
       /\ \A i \in DOMAIN inner :
            IF i % 2 = 1 THEN inner[i] \in Members ELSE inner[i] = ","

\* Does JSON.parse(json) return (TRUE) or throw a SyntaxError (FALSE)?
JSONParses(json) ==
    /\ Len(json) >= 2
    /\ json[1] = "{"
    /\ json[Len(json)] = "}"
    /\ MemberList(SubSeq(json, 2, Len(json) - 1))

\* parsed[key] for the object JSON.parse(json) returns: the value of the last
\* member with that key, undefined when there is none.
Property(json, key) ==
    LET hits == {i \in DOMAIN json : json[i] \in Members /\ MemberKey(json[i]) = key}
    IN IF hits = {} THEN Undefined
       ELSE MemberValue(json[CHOOSE i \in hits : \A j \in hits : j <= i])

\* ------------------------------------------------------ server: values
\* The Analysis object of the handler as first built (all optional fields
\* undefined): the fixed default triple.
DefaultStrengths == Arr(<<"Solid technical foundation", "Highlights relevant experience">>)
DefaultImprovements == Arr(<<"Quantify achievements", "Add a short summary">>)
DefaultTailoring == Arr(<<"Mirror key phrases", "Mention recent projects">>)
DefaultAnalysis ==
    [strengths |-> DefaultStrengths,
     improvements |-> DefaultImprovements,
     tailoring |-> DefaultTailoring,
     customizedResume |-> Undefined,
     specificChanges |-> Undefined,
     coverLetter |-> Undefined]

\* What a rejected promise / thrown exception carries.
NoCause == [isError |-> FALSE, message |-> ""]
ApiError == [isError |-> TRUE, message |-> "Connection error."]
TypeError == [isError |-> TRUE, message |-> "Cannot read properties of undefined"]

\* Outcomes of openai.chat.completions.create(...):
\*   rejected  - the promise rejects with a cause
\*   malformed - it resolves to an object without a choices array
\*   resolved  - it resolves; content is choices[0]?.message?.content
NoReply == [kind |-> "none", cause |-> NoCause, content |-> Undefined]
Rejected(cause) == [kind |-> "rejected", cause |-> cause, content |-> Undefined]
Malformed == [kind |-> "malformed", cause |-> NoCause, content |-> Undefined]
Resolved(content) == [kind |-> "resolved", cause |-> NoCause, content |-> content]

\* Replies of the generation service to the analysis prompt.
AnalysisTexts ==
    { <<"Sorry, no JSON">>,
      <<"noise", "{", "S=[a]", ",", "I=[]", ",", "T=[b,c]", "}", "trailing">>,
      <<"{", "S='a'", ",", "X=1", ",", "I=[x]", "}">>,
      <<"{", "S=[a]", "I=[]", "}">>,
      <<"}", "S=[a]", "{">>,
      <<"{", "S=[a]">>,
      <<"S=[a]", "}">>,
      <<"{", "S=[a,#1]", ",", "T=[b,c]", "}">> }
AnalysisReplies ==
    {Rejected(ApiError), Malformed, Resolved(Undefined)}
      \cup {Resolved(Str(t)) : t \in AnalysisTexts}
\* The replies explored for the runs the page starts beside its uploads,
\* its tabs and its observer (a subset of the above with one reply per class
\* of response the page can tell apart).  The runs of the page under replies
\* of every kind are the behaviours of SpecReplies.
PageAnalysisReplies ==
    {Rejected(ApiError),
     Resolved(Str(<<"{", "S='a'", ",", "X=1", ",", "I=[x]", "}">>))}

\* Replies of the generation service to a free-text prompt.
FreeTexts == { <<>>, <<" ">>, <<" ", "text-1", " ">>, <<"text-2">> }
FreeTextReplies ==
    {Rejected(ApiError), Malformed, Resolved(Null)}
      \cup {Resolved(Str(t)) : t \in FreeTexts}
PageFreeTextReplies ==
    {Rejected(ApiError), Resolved(Str(<<" ", "text-1", " ">>))}
PageCoverLetterReplies ==
    {Rejected(ApiError), Resolved(Str(<<" ">>)),
     Resolved(Str(<<" ", "text-1", " ">>)), Resolved(Str(<<"text-2">>))}

\* The two notices the handler stores in coverLetter instead of a letter.
EmptyNotice ==
    Str(<<"Cover letter generation returned an ", "empty response", ". Please try again.">>)
FailedNotice(cause) ==
    Str(<<"Cover letter ", "generation failed", ": ",
          IF cause.isError THEN cause.message ELSE "Unknown error",
          ". Please try again.">>)

TaskOrder == <<"analysis", "customization", "specificChanges", "coverLetter">>
Tasks == {TaskOrder[i] : i \in DOMAIN TaskOrder}

\* ------------------------------------------------------ server: state
\* One slot per request the server can be serving: the client's full run,
\* the client's cover-letter-only run, a direct caller of the HTTP API, and
\* the requests of the page whose fetch was rejected while the handler was
\* working on them (the handler goes on; nobody awaits its response).
LostSlots == {"lost1", "lost2"}
PageSlots == {"full", "cl"} \cup LostSlots
Slots == {"full", "cl", "api"} \cup LostSlots

VARIABLES
    openai,                  \* server: TRUE iff OPENAI_API_KEY was set at start
    srv,                     \* server: per slot, the request being served
    resumeText,              \* client state (useState)
    jobDescription,
    isAnalyzing,
    isGeneratingCoverLetter,
    analysis,
    uploadedFile,
    isProcessingPDF,
    extracting,              \* client: the calls of handleFileUpload that are suspended,
                             \* each named by the number of its pick
    toast,                   \* client: title of the last toast shown ("" if none)
    runs,                    \* number of runs the user has started
    uploads,                 \* number of documents the user has picked
    apiRequests,             \* number of requests the direct caller has sent
    local,                   \* client: per suspended handleFileUpload, its file and its
                             \* local variables
    log,                     \* observer: the runs that have completed, in completion order
    activeTab,               \* client state (useState): the results tab shown
    pendingEffects,          \* client: the runs of useEffect([analysis]) that are due, oldest
                             \* first: the analysis each was rendered with
    stub                     \* the generation client when it is a deterministic stub

serverVars == <<openai, srv>>
clientVars == <<resumeText, jobDescription, isAnalyzing, isGeneratingCoverLetter,
                analysis, uploadedFile, isProcessingPDF, extracting, toast>>
view == <<activeTab, pendingEffects>>
aux == <<local, log, activeTab, pendingEffects, stub>>
vars == <<openai, srv, resumeText, jobDescription, isAnalyzing,
          isGeneratingCoverLetter, analysis, uploadedFile, isProcessingPDF,
          extracting, toast, runs, uploads, apiRequests, local, log,
          activeTab, pendingEffects, stub>>

NoBody == [resumeText |-> Undefined, jobDescription |-> Undefined]
\* The generation client is the service itself (off), or a stub that answers
\* a prompt it has seen before as it did then.
NoStub == [on |-> FALSE, replies |-> <<>>]
IdleSlot ==
    [pc |-> "idle", body |-> NoBody, analysis |-> Null, issued |-> <<>>,
     inflight |-> {}, reply |-> [t \in Tasks |-> NoReply], status |-> 0]

\* const { resumeText, jobDescription = "" } = req.body
BodyJobDescription(body) ==
    IF body.jobDescription.t = "undefined" THEN <<>> ELSE body.jobDescription.v
\* Lines 58-136 throw a TypeError, caught by the outer catch of lines
\* 358-367, when a value of the body is used as the string its cast says it
\* is and is none: resumeText.trim() of a truthy resumeText (line 58),
\* jobDescription.length of null (line 63, the default "" is for undefined
\* only) or jobDescription.trim() (line 82).
ResumeTextThrows(body) == Truthy(body.resumeText) /\ ~IsString(body.resumeText)
JobDescriptionThrows(body) ==
    body.jobDescription.t # "undefined" /\ ~IsString(body.jobDescription)

\* The prompts that are null when the job description is blank.
customizePromptUntrimmed(jd) == IF jd # <<>> THEN Str(<<"customize">>) ELSE Null
customizePrompt(jd) == IF trim(jd) # <<>> THEN Str(<<"customize">>) ELSE Null
specificChangesPrompt(jd) == IF trim(jd) # <<>> THEN Str(<<"changes">>) ELSE Null

\* The task whose call the handler issues next once `task` is over, or
\* "respond" when it goes on to res.json(analysis).
NextStageSwapped(jd, task) ==
    CASE task = "analysis" ->
           IF Truthy(specificChangesPrompt(jd)) THEN "specificChanges"
           ELSE IF Truthy(Str(trim(jd))) THEN "coverLetter" ELSE "respond"
      [] task = "specificChanges" ->
           IF Truthy(customizePrompt(jd)) THEN "customization"
           ELSE IF Truthy(Str(trim(jd))) THEN "coverLetter" ELSE "respond"
      [] task = "customization" ->
           IF Truthy(Str(trim(jd))) THEN "coverLetter" ELSE "respond"
      [] OTHER -> "respond"
NextStage(jd, task) ==
    CASE task = "analysis" ->
           IF Truthy(customizePrompt(jd)) THEN "customization"
           ELSE IF Truthy(specificChangesPrompt(jd)) THEN "specificChanges"
           ELSE IF Truthy(Str(trim(jd))) THEN "coverLetter" ELSE "respond"
      [] task = "customization" ->
           IF Truthy(specificChangesPrompt(jd)) THEN "specificChanges"
           ELSE IF Truthy(Str(trim(jd))) THEN "coverLetter" ELSE "respond"
      [] task = "specificChanges" ->
           IF Truthy(Str(trim(jd))) THEN "coverLetter" ELSE "respond"
      [] OTHER -> "respond"

\* res.status(code).json(...): the body of a 200 is the Analysis object as
\* JSON.stringify writes it, i.e. without its undefined properties.
resJson(a) == [k \in DOMAIN a |-> IF a[k].t = "undefined" THEN Undefined ELSE a[k]]
Respond(s, code, a) ==
    [s EXCEPT !.pc = "responded", !.status = code,
              !.analysis = IF code = 200 THEN resJson(a) ELSE Null,
              !.inflight = {}]

\* await openai.chat.completions.create(...) for `task`
IssueCall(s, task) ==
    [s EXCEPT !.pc = task, !.issued = Append(@, task), !.inflight = @ \cup {task}]
\* the awaited call of `task` is over with `reply`
CompleteCall(s, task, reply) ==
    [s EXCEPT !.inflight = @ \ {task}, !.reply[task] = reply]

\* After the block of `task` has run with Analysis object a: the next call,
\* or the response.
Proceed(s, a, task) ==
    LET nxt == NextStage(BodyJobDescription(s.body), task)
    IN IF nxt = "respond" THEN Respond(s, 200, a)
       ELSE IssueCall([s EXCEPT !.analysis = a], nxt)

\* choices[0]?.message?.content || ""
ContentOf(reply) == IF Truthy(reply.content) THEN reply.content.v ELSE <<>>
\* What the catch clause of a task receives, if the call did not go through.
Thrown(reply) == IF reply.kind = "malformed" THEN TypeError ELSE reply.cause

\* Lines 176-188: locate the JSON object in the text and read the three keys.
ParseAnalysisUnchecked(a, analysisText) ==
    LET jsonStart == indexOf(analysisText, "{")
        jsonEnd == lastIndexOf(analysisText, "}")
        json == slice(analysisText, jsonStart, jsonEnd + 1)
    IN IF jsonStart # -1 /\ jsonEnd # -1 /\ jsonEnd > jsonStart /\ JSONParses(json)
       THEN [a EXCEPT !.strengths = Property(json, "strengths"),
                      !.improvements = Property(json, "improvements"),
                      !.tailoring = Property(json, "tailoring")]
       ELSE a
ParseAnalysisEmptyOnFailure(a, analysisText) ==
    LET jsonStart == indexOf(analysisText, "{")
        jsonEnd == lastIndexOf(analysisText, "}")
        json == slice(analysisText, jsonStart, jsonEnd + 1)
        found == jsonStart # -1 /\ jsonEnd # -1 /\ jsonEnd > jsonStart
        read(key) == IF found /\ JSONParses(json) /\ IsArray(Property(json, key))
                     THEN Property(json, key) ELSE Arr(<<>>)
    IN [a EXCEPT !.strengths = read("strengths"),
                 !.improvements = read("improvements"),
                 !.tailoring = read("tailoring")]
ParseAnalysisKeepDefaults(a, analysisText) ==
    LET jsonStart == indexOf(analysisText, "{")
        jsonEnd == lastIndexOf(analysisText, "}")
        json == slice(analysisText, jsonStart, jsonEnd + 1)
    IN IF jsonStart # -1 /\ jsonEnd # -1 /\ jsonEnd > jsonStart /\ JSONParses(json)
       THEN [a EXCEPT
               !.strengths = IF IsArray(Property(json, "strengths"))
                             THEN Property(json, "strengths") ELSE @,
               !.improvements = IF IsArray(Property(json, "improvements"))
                                THEN Property(json, "improvements") ELSE @,
               !.tailoring = IF IsArray(Property(json, "tailoring"))
                             THEN Property(json, "tailoring") ELSE @]
       ELSE a
ParseAnalysis(a, analysisText) ==
    LET jsonStart == indexOf(analysisText, "{")
        jsonEnd == lastIndexOf(analysisText, "}")
        json == slice(analysisText, jsonStart, jsonEnd + 1)
    IN IF jsonStart # -1 /\ jsonEnd # -1 /\ jsonEnd > jsonStart /\ JSONParses(json)
       THEN [a EXCEPT
               !.strengths = IF IsArray(Property(json, "strengths"))
                             THEN Property(json, "strengths") ELSE Arr(<<>>),
               !.improvements = IF IsArray(Property(json, "improvements"))
                                THEN Property(json, "improvements") ELSE Arr(<<>>),
               !.tailoring = IF IsArray(Property(json, "tailoring"))
                             THEN Property(json, "tailoring") ELSE Arr(<<>>)]
       ELSE a

\* The replies the generation service may give to the call of `task` made
\* for the request in slot r.
ServiceReplies(r, task) ==
    IF r = "api"
    THEN (IF task = "analysis" THEN AnalysisReplies ELSE FreeTextReplies)
    ELSE CASE task = "analysis" -> PageAnalysisReplies
           [] task = "coverLetter" -> PageCoverLetterReplies
           [] OTHER -> PageFreeTextReplies
\* What the prompt of `task` is built from (lines 65-136 and 252-312): the
\* resume text and the job description, "" when the body has none.
PromptOf(body, task) == <<task, body.resumeText.v, BodyJobDescription(body)>>
\* A stub answers the prompt as it has settled to answer it.
RepliesTo(r, task) ==
    IF ~stub.on THEN ServiceReplies(r, task)
    ELSE IF PromptOf(srv[r].body, task) \in DOMAIN stub.replies
         THEN {stub.replies[PromptOf(srv[r].body, task)]}
         ELSE {}
\* The stub settles its answer to a prompt it is asked for the first time.
StubDecides(r) ==
    /\ stub.on
    /\ srv[r].pc \in Tasks
    /\ PromptOf(srv[r].body, srv[r].pc) \notin DOMAIN stub.replies
    /\ \E reply \in ServiceReplies("full", srv[r].pc) :
         stub' = [stub EXCEPT !.replies =
                    @ @@ (PromptOf(srv[r].body, srv[r].pc) :> reply)]
    /\ UNCHANGED <<openai, srv, clientVars, runs, apiRequests, uploads,
                   local, log, view>>

\* ------------------------------------------------------ server: handler
\* Lines 43-158: the checks, the default Analysis object, the first call.
ReceiveCarrying(r) ==
    /\ srv[r].pc = "sent"
    /\ LET s == srv[r]
           rt == s.body.resumeText
           carried == IF log # <<>> /\ log[Len(log)].response # Null
                      THEN [k \in DOMAIN DefaultAnalysis |->
                              IF log[Len(log)].response[k] # Undefined
                              THEN log[Len(log)].response[k] ELSE DefaultAnalysis[k]]
                      ELSE DefaultAnalysis
       IN srv' = [srv EXCEPT ![r] =
            IF ~openai THEN Respond(s, 503, Null)
            ELSE IF ~Truthy(rt) THEN Respond(s, 400, Null)
            ELSE IF ResumeTextThrows(s.body) THEN Respond(s, 500, Null)
            ELSE IF ~Truthy(Str(trim(rt.v))) THEN Respond(s, 400, Null)
            ELSE IF JobDescriptionThrows(s.body) THEN Respond(s, 500, Null)
            ELSE IssueCall([s EXCEPT !.analysis = carried], "analysis")]
    /\ UNCHANGED <<openai, clientVars, runs, apiRequests, aux, uploads>>
ReceiveTextFirst(r) ==
    /\ srv[r].pc = "sent"
    /\ LET s == srv[r]
           rt == s.body.resumeText
       IN srv' = [srv EXCEPT ![r] =
            IF ~Truthy(rt) THEN Respond(s, 400, Null)
            ELSE IF ResumeTextThrows(s.body) THEN Respond(s, 500, Null)
            ELSE IF ~Truthy(Str(trim(rt.v))) THEN Respond(s, 400, Null)
            ELSE IF ~openai THEN Respond(s, 503, Null)
            ELSE IF JobDescriptionThrows(s.body) THEN Respond(s, 500, Null)
            ELSE IssueCall([s EXCEPT !.analysis = DefaultAnalysis], "analysis")]
    /\ UNCHANGED <<openai, clientVars, runs, apiRequests, aux, uploads>>
ReceiveNoTrim(r) ==
    /\ srv[r].pc = "sent"
    /\ LET s == srv[r]
           rt == s.body.resumeText
       IN srv' = [srv EXCEPT ![r] =
            IF ~openai THEN Respond(s, 503, Null)
            ELSE IF ~Truthy(rt) THEN Respond(s, 400, Null)
            ELSE IF ResumeTextThrows(s.body) THEN Respond(s, 500, Null)
            ELSE IF JobDescriptionThrows(s.body) THEN Respond(s, 500, Null)
            ELSE IssueCall([s EXCEPT !.analysis = DefaultAnalysis], "analysis")]
    /\ UNCHANGED <<openai, clientVars, runs, apiRequests, aux, uploads>>
Receive(r) ==
    /\ srv[r].pc = "sent"
    /\ LET s == srv[r]
           rt == s.body.resumeText
       IN srv' = [srv EXCEPT ![r] =
            IF ~openai THEN Respond(s, 503, Null)
            ELSE IF ~Truthy(rt) THEN Respond(s, 400, Null)
            ELSE IF ResumeTextThrows(s.body) THEN Respond(s, 500, Null)
            ELSE IF ~Truthy(Str(trim(rt.v))) THEN Respond(s, 400, Null)
            ELSE IF JobDescriptionThrows(s.body) THEN Respond(s, 500, Null)
            ELSE IssueCall([s EXCEPT !.analysis = DefaultAnalysis], "analysis")]
    /\ UNCHANGED <<openai, clientVars, runs, apiRequests, aux, uploads>>

\* Lines 158-188 and the outer catch of lines 346-354.
AnalysisStep(s, reply) ==
    LET done == CompleteCall(s, "analysis", reply)
    IN IF reply.kind # "resolved"
       THEN Respond(done, 200, done.analysis)
       ELSE Proceed(done, ParseAnalysis(done.analysis, ContentOf(reply)), "analysis")
AnalysisReturn(r) ==
    /\ srv[r].pc = "analysis"
    /\ \E reply \in RepliesTo(r, "analysis") :
         srv' = [srv EXCEPT ![r] = AnalysisStep(srv[r], reply)]
    /\ UNCHANGED <<openai, clientVars, runs, apiRequests, aux, uploads>>

\* Lines 191-215.
CustomizeStepUncaught(s, reply) ==
    LET done == CompleteCall(s, "customization", reply)
        customizedResume == ContentOf(reply)
    IN IF reply.kind # "resolved" THEN Respond(done, 200, done.analysis)
       ELSE Proceed(done,
                    IF Truthy(Str(trim(customizedResume)))
                    THEN [done.analysis EXCEPT
                            !.customizedResume = Str(trim(customizedResume))]
                    ELSE done.analysis,
                    "customization")
CustomizeStepNoTrim(s, reply) ==
    LET done == CompleteCall(s, "customization", reply)
        customizedResume == ContentOf(reply)
        a == IF reply.kind = "resolved" /\ Truthy(Str(customizedResume))
             THEN [done.analysis EXCEPT !.customizedResume = Str(trim(customizedResume))]
             ELSE done.analysis
    IN Proceed(done, a, "customization")
CustomizeStep(s, reply) ==
    LET done == CompleteCall(s, "customization", reply)
        customizedResume == ContentOf(reply)
        a == IF reply.kind = "resolved" /\ Truthy(Str(trim(customizedResume)))
             THEN [done.analysis EXCEPT !.customizedResume = Str(trim(customizedResume))]
             ELSE done.analysis
    IN Proceed(done, a, "customization")
CustomizeReturn(r) ==
    /\ srv[r].pc = "customization"
    /\ \E reply \in RepliesTo(r, "customization") :
         srv' = [srv EXCEPT ![r] = CustomizeStep(srv[r], reply)]
    /\ UNCHANGED <<openai, clientVars, runs, apiRequests, aux, uploads>>

\* Lines 218-246.
ChangesStepRetry(s, reply) ==
    LET done == CompleteCall(s, "specificChanges", reply)
        specificChanges == ContentOf(reply)
        got == reply.kind = "resolved" /\ Truthy(Str(trim(specificChanges)))
        again == ~got /\ Cardinality({i \in DOMAIN s.issued :
                                         s.issued[i] = "specificChanges"}) = 1
    IN IF again THEN IssueCall(done, "specificChanges")
       ELSE Proceed(done,
                    IF got THEN [done.analysis EXCEPT
                                   !.specificChanges = Str(trim(specificChanges))]
                    ELSE done.analysis,
                    "specificChanges")
ChangesStep(s, reply) ==
    LET done == CompleteCall(s, "specificChanges", reply)
        specificChanges == ContentOf(reply)
        a == IF reply.kind = "resolved" /\ Truthy(Str(trim(specificChanges)))
             THEN [done.analysis EXCEPT !.specificChanges = Str(trim(specificChanges))]
             ELSE done.analysis
    IN Proceed(done, a, "specificChanges")
ChangesReturn(r) ==
    /\ srv[r].pc = "specificChanges"
    /\ \E reply \in RepliesTo(r, "specificChanges") :
         srv' = [srv EXCEPT ![r] = ChangesStep(srv[r], reply)]
    /\ UNCHANGED <<openai, clientVars, runs, apiRequests, aux, uploads>>

\* Lines 249-344.
CoverLetterStepSilent(s, reply) ==
    LET done == CompleteCall(s, "coverLetter", reply)
        coverLetter == ContentOf(reply)
        a == IF reply.kind = "resolved" /\ Truthy(Str(trim(coverLetter)))
             THEN [done.analysis EXCEPT !.coverLetter = Str(trim(coverLetter))]
             ELSE done.analysis
    IN Proceed(done, a, "coverLetter")
CoverLetterStep(s, reply) ==
    LET done == CompleteCall(s, "coverLetter", reply)
        coverLetter == ContentOf(reply)
        a == [done.analysis EXCEPT !.coverLetter =
                IF reply.kind # "resolved" THEN FailedNotice(Thrown(reply))
                ELSE IF Truthy(Str(trim(coverLetter))) THEN Str(trim(coverLetter))
                ELSE EmptyNotice]
    IN Proceed(done, a, "coverLetter")
CoverLetterReturn(r) ==
    /\ srv[r].pc = "coverLetter"
    /\ \E reply \in RepliesTo(r, "coverLetter") :
         srv' = [srv EXCEPT ![r] = CoverLetterStep(srv[r], reply)]
    /\ UNCHANGED <<openai, clientVars, runs, apiRequests, aux, uploads>>

\* A caller other than the page posts to /api/analyze-resume and reads the
\* response.
ApiBodies ==
    [resumeText : {Undefined, Str(<<" ">>), Str(<<"Resume">>), Num("#5")},
     jobDescription : {Undefined, Null, Str(<<" ">>), Str(<<"Job">>)}]
ApiSend(bodies) ==
    /\ srv["api"].pc = "idle"
    /\ \E body \in bodies :
         srv' = [srv EXCEPT !["api"] = [IdleSlot EXCEPT !.pc = "sent", !.body = body]]
    /\ apiRequests' = apiRequests + 1
    /\ UNCHANGED <<openai, clientVars, runs, uploads, aux>>
ApiPost ==
    /\ apiRequests < MaxApiRequests
    /\ ApiSend(ApiBodies)
\* The requests sent to the server with the stub.
StubBodies ==
    [resumeText : {Str(<<"Resume">>), Str(<<"Other">>)},
     jobDescription : {Undefined, Str(<<"Job">>)}]
StubPost ==
    /\ apiRequests < MaxStubRequests
    /\ ApiSend(StubBodies)

\* ------------------------------------------------------ client: upload
\* The documents the user can pick.  FilePages(f) is the text content of
\* each page (a sequence of items; the item "" is a non-text item).  Each of
\* the four awaits of handleFileUpload may reject: FileReads(f) says whether
\* file.arrayBuffer() resolves, FileDecodes(f) whether pdf.js loads the
\* bytes, PageFails(f, i) whether pdf.getPage(i) rejects and TextFails(f, i)
\* whether page.getTextContent() of page i rejects.  PageFiles are the
\* documents picked in the behaviours of the whole page, one per outcome.
PageFiles == {"cv.pdf", "broken.pdf", "notes.txt", "huge.pdf"}
Files == PageFiles \cup {"limit.pdf", "torn.pdf", "RESUME.PDF", "scan.bin", "huge.txt",
                         "gone.pdf", "blot.pdf"}
File(f) == [t |-> "file", v |-> <<f>>]
\* file.type and file.name (the name as the chunks before and from its last dot)
FileType(f) == CASE f \in {"notes.txt", "huge.txt"} -> "text/plain"
                 [] f = "RESUME.PDF" -> ""
                 [] f = "torn.pdf" -> "application/octet-stream"
                 [] OTHER -> "application/pdf"
FileName(f) == CASE f = "cv.pdf" -> <<"cv", ".pdf">>
                 [] f = "broken.pdf" -> <<"broken", ".pdf">>
                 [] f = "notes.txt" -> <<"notes", ".txt">>
                 [] f = "huge.pdf" -> <<"huge", ".pdf">>
                 [] f = "limit.pdf" -> <<"limit", ".pdf">>
                 [] f = "torn.pdf" -> <<"torn", ".pdf">>
                 [] f = "RESUME.PDF" -> <<"RESUME", ".PDF">>
                 [] f = "scan.bin" -> <<"scan", ".bin">>
                 [] f = "gone.pdf" -> <<"gone", ".pdf">>
                 [] f = "blot.pdf" -> <<"blot", ".pdf">>
                 [] OTHER -> <<"huge", ".txt">>
\* String.prototype.toLowerCase / endsWith on a chunk sequence
LowerChunk(c) == CASE c = ".PDF" -> ".pdf"
                   [] c = "RESUME" -> "resume"
                   [] OTHER -> c
toLowerCase(name) == [i \in DOMAIN name |-> LowerChunk(name[i])]
endsWith(name, suffix) == name # <<>> /\ name[Len(name)] = suffix
\* !(file.type !== "application/pdf" && !file.name.toLowerCase().endsWith(".pdf"))
FileIsPdfCaseSensitive(f) ==
    ~(FileType(f) # "application/pdf" /\ ~endsWith(FileName(f), ".pdf"))
FileIsPdf(f) ==
    ~(FileType(f) # "application/pdf" /\ ~endsWith(toLowerCase(FileName(f)), ".pdf"))
FiveMiB == 5242880
FileSize(f) == CASE f \in {"huge.pdf", "huge.txt"} -> FiveMiB + 1
                 [] f = "limit.pdf" -> FiveMiB
                 [] OTHER -> 20480
FileReads(f) == f # "gone.pdf"
FileDecodes(f) == f # "broken.pdf"
FilePages(f) == CASE f = "RESUME.PDF" -> << <<"Solo", "", "Page">> >>
                 [] f = "scan.bin" -> << <<"", "Scan">>, <<>>, <<"End">> >>
                 [] OTHER -> << <<"Jane", "Doe">>, <<"", "Engineer">> >>
PageFails(f, i) == f = "torn.pdf" /\ i = 2
TextFails(f, i) == f = "blot.pdf" /\ i = 1
\* Does every await of the extraction of the file resolve?
FileReadable(f) ==
    /\ FileReads(f)
    /\ FileDecodes(f)
    /\ \A i \in DOMAIN FilePages(f) : ~PageFails(f, i) /\ ~TextFails(f, i)

\* A handleFileUpload(file) suspended at its first await: its argument, the
\* await it is suspended at ("arrayBuffer", "getDocument", "getPage" or
\* "getTextContent") and its local variables, the loop index i and
\* extractedText.
Suspended(f) == [file |-> f, at |-> "arrayBuffer", i |-> 1, extractedText |-> <<>>]

\* items.map(...).join(" ")
RECURSIVE JoinItemsSkippingEmpty(_)
JoinItemsSkippingEmpty(items) ==
    IF items = <<>> THEN <<>>
    ELSE IF Head(items) = "" THEN JoinItemsSkippingEmpty(Tail(items))
    ELSE IF Len(items) = 1 THEN <<Head(items)>>
    ELSE <<Head(items), " ">> \o JoinItemsSkippingEmpty(Tail(items))
RECURSIVE JoinItems(_)
JoinItems(items) ==
    IF items = <<>> THEN <<>>
    ELSE LET first == IF Head(items) = "" THEN <<>> ELSE <<Head(items)>>
         IN IF Len(items) = 1 THEN first
            ELSE first \o <<" ">> \o JoinItems(Tail(items))
\* extractedText after the loop over the pages: each page text followed by "\n"
RECURSIVE ExtractedText(_)
ExtractedText(pages) ==
    IF pages = <<>> THEN <<>>
    ELSE JoinItems(Head(pages)) \o <<"\n">> \o ExtractedText(Tail(pages))

\* file.size > 5 * 1024 * 1024 (line 63)
TooLargeInclusive(f) == FileSize(f) >= FiveMiB
TooLarge(f) == FileSize(f) > FiveMiB

\* handleFileUpload(file) up to its first await (lines 52-77).  Nothing
\* keeps the call from running beside the calls that are suspended, of the
\* same file or of another.
FileUploadStart(f) ==
    /\ uploads' = uploads + 1
    /\ IF ~FileIsPdf(f)
       THEN /\ toast' = "Invalid file type"
            /\ UNCHANGED <<uploadedFile, isProcessingPDF, extracting, local>>
       ELSE IF TooLarge(f)
       THEN /\ toast' = "File too large"
            /\ UNCHANGED <<uploadedFile, isProcessingPDF, extracting, local>>
       ELSE /\ uploadedFile' = File(f)
            /\ isProcessingPDF' = TRUE
            /\ extracting' = extracting \cup {uploads + 1}
            /\ local' = [k \in extracting \cup {uploads + 1} |->
                            IF k \in extracting THEN local[k] ELSE Suspended(f)]
            /\ UNCHANGED toast
    /\ UNCHANGED <<serverVars, resumeText, jobDescription, isAnalyzing,
                   isGeneratingCoverLetter, analysis, runs, apiRequests, log,
                   view, stub>>

\* The user picks or drops a document (lines 133-148).
HandleFileUpload ==
    /\ uploads < MaxUploads
    /\ \E f \in PageFiles : FileUploadStart(f)
PickFile ==
    /\ uploads < MaxPicks
    /\ \E f \in Files : FileUploadStart(f)

\* handleFileUpload after line 73, await by await.  What the observer
\* notes when the call k of handleFileUpload is over: its file, how it
\* ended, the pages it had read, the document and text held just before,
\* and the number of documents picked so far.
UploadOver(k, ok, read) ==
    [file |-> local[k].file, ok |-> ok, read |-> read,
     heldFile |-> uploadedFile, heldText |-> resumeText, picks |-> uploads]
\* The call k has returned: its local variables are gone.
Returned(k) ==
    /\ extracting' = extracting \ {k}
    /\ local' = [j \in extracting \ {k} |-> local[j]]

\* Lines 108-120: the catch clause, then finally.
ExtractionFailed(k, read) ==
    /\ toast' = "Error reading PDF"
    /\ uploadedFile' = Null
    /\ resumeText' = <<>>
    /\ isProcessingPDF' = FALSE
    /\ Returned(k)
    /\ log' = Append(log, UploadOver(k, FALSE, read))
\* Lines 102-107 and 118-120: the loop is over.
ExtractionSucceeded(k, extractedText, read) ==
    /\ resumeText' = trim(extractedText)
    /\ toast' = "PDF uploaded successfully"
    /\ UNCHANGED uploadedFile
    /\ isProcessingPDF' = FALSE
    /\ Returned(k)
    /\ log' = Append(log, UploadOver(k, TRUE, read))

\* What a call of handleFileUpload leaves alone while it goes from one await
\* to the next.
StillExtracting ==
    UNCHANGED <<resumeText, uploadedFile, isProcessingPDF, extracting, toast, log>>
\* What no step of handleFileUpload after its first await touches.
BesideExtraction ==
    UNCHANGED <<serverVars, jobDescription, isAnalyzing, isGeneratingCoverLetter,
                analysis, runs, apiRequests, uploads, view, stub>>

\* Line 77: await file.arrayBuffer() of a suspended handleFileUpload(f) is
\* over; the call goes on to getDocument(...) or, rejected, to its catch.
ArrayBuffer(f) ==
    \E k \in extracting :
        /\ local[k].file = f
        /\ local[k].at = "arrayBuffer"
        /\ IF ~FileReads(f) THEN ExtractionFailed(k, 0)
           ELSE /\ local' = [local EXCEPT ![k].at = "getDocument"]
                /\ StillExtracting
        /\ BesideExtraction

\* Lines 78-88: await pdfjsLib.getDocument(...).promise is over; the call
\* enters the loop over the pages (or leaves it at once, for no page).
GetDocument(f) ==
    \E k \in extracting :
        /\ local[k].file = f
        /\ local[k].at = "getDocument"
        /\ IF ~FileDecodes(f) THEN ExtractionFailed(k, 0)
           ELSE IF Len(FilePages(f)) = 0 THEN ExtractionSucceeded(k, <<>>, 0)
           ELSE /\ local' = [local EXCEPT ![k].at = "getPage"]
                /\ StillExtracting
        /\ BesideExtraction

\* Line 89: await pdf.getPage(i) of one turn of the loop is over.
GetPage(f) ==
    \E k \in extracting :
        /\ local[k].file = f
        /\ local[k].at = "getPage"
        /\ IF PageFails(f, local[k].i) THEN ExtractionFailed(k, local[k].i - 1)
           ELSE /\ local' = [local EXCEPT ![k].at = "getTextContent"]
                /\ StillExtracting
        /\ BesideExtraction

\* Lines 88-100: no setResumeText in the loop body, the text read so far is
\* in the local extractedText only.
ResumeTextShownWhileReading(current, extractedText) == trim(extractedText)
ResumeTextWhileReading(current, extractedText) == current
\* Lines 90-107: await page.getTextContent() of one turn of the loop is
\* over; the rest of the loop body runs, then the next turn up to its
\* getPage or, after the last page, the end of the try block.
GetTextContent(f) ==
    \E k \in extracting :
        /\ local[k].file = f
        /\ local[k].at = "getTextContent"
        /\ LET i == local[k].i
               pageText == JoinItems(FilePages(f)[i])
               extractedText == local[k].extractedText \o pageText \o <<"\n">>
           IN IF TextFails(f, i) THEN ExtractionFailed(k, i - 1)
              ELSE IF i = Len(FilePages(f)) THEN ExtractionSucceeded(k, extractedText, i)
              ELSE /\ local' = [local EXCEPT ![k].at = "getPage",
                                              ![k].i = i + 1,
                                              ![k].extractedText = extractedText]
                   /\ resumeText' = ResumeTextWhileReading(resumeText, extractedText)
                   /\ UNCHANGED <<uploadedFile, isProcessingPDF, extracting, toast, log>>
        /\ BesideExtraction

\* The "Remove PDF" button (lines 514-524), rendered when a file is held and
\* no extraction is shown as running.
RemovePdf ==
    /\ ~isProcessingPDF
    /\ uploadedFile # Null
    /\ uploadedFile' = Null
    /\ resumeText' = <<>>
    /\ UNCHANGED <<serverVars, jobDescription, isAnalyzing, isGeneratingCoverLetter,
                   analysis, isProcessingPDF, extracting, toast, runs, uploads, apiRequests, aux>>

\* The job description textarea (line 556).
JobDescriptions == { <<>>, <<" ">>, <<" ", "Job", " ">> }
SetJobDescription ==
    /\ \E jd \in JobDescriptions : jd # jobDescription /\ jobDescription' = jd
    /\ UNCHANGED <<serverVars, resumeText, isAnalyzing, isGeneratingCoverLetter,
                   analysis, uploadedFile, isProcessingPDF, extracting, toast, runs,
                   apiRequests, aux, uploads>>

\* ------------------------------------------------------ client: runs
\* The request both handlers post: JSON.stringify({resumeText, jobDescription:
\* jobDescription.trim()}).
RequestBody == [resumeText |-> Str(resumeText), jobDescription |-> Str(trim(jobDescription))]
Post == [IdleSlot EXCEPT !.pc = "sent", !.body = RequestBody]

\* disabled= of the two buttons (lines 583 and 602)
CoverLetterButtonDisabled ==
    \/ isGeneratingCoverLetter
    \/ uploadedFile = Null
    \/ resumeText = <<>>
    \/ trim(jobDescription) = <<>>
EditResumeButtonDisabled ==
    \/ isAnalyzing
    \/ uploadedFile = Null
    \/ resumeText = <<>>
    \/ trim(jobDescription) = <<>>

\* handleAnalyze up to the fetch (lines 300-329), whatever the state of the
\* page it is called in.
AnalyzeCallNoFileCheck ==
    /\ runs < MaxRuns
    /\ runs' = runs + 1
    /\ IF trim(resumeText) = <<>> \/ trim(jobDescription) = <<>>
       THEN /\ toast' = "Error"
            /\ UNCHANGED <<srv, isAnalyzing>>
       ELSE /\ isAnalyzing' = TRUE
            /\ srv' = [srv EXCEPT !["full"] = Post]
            /\ UNCHANGED toast
    /\ UNCHANGED <<openai, resumeText, jobDescription, isGeneratingCoverLetter,
                   analysis, uploadedFile, isProcessingPDF, extracting, apiRequests,
                   aux, uploads>>
AnalyzeCall ==
    /\ runs < MaxRuns
    /\ runs' = runs + 1
    /\ IF uploadedFile = Null \/ trim(resumeText) = <<>> \/ trim(jobDescription) = <<>>
       THEN /\ toast' = "Error"
            /\ UNCHANGED <<srv, isAnalyzing>>
       ELSE /\ isAnalyzing' = TRUE
            /\ srv' = [srv EXCEPT !["full"] = Post]
            /\ UNCHANGED toast
    /\ UNCHANGED <<openai, resumeText, jobDescription, isGeneratingCoverLetter,
                   analysis, uploadedFile, isProcessingPDF, extracting, apiRequests,
                   aux, uploads>>

\* A click on the "Edit Resume with ChatGPT" button (lines 600-617).
HandleAnalyze ==
    /\ ~EditResumeButtonDisabled
    /\ AnalyzeCall

\* Lines 354-373: the response body coerced to a ResumeAnalysis.
Sane(rawAnalysis) ==
    [strengths |-> IF IsArray(rawAnalysis.strengths) THEN rawAnalysis.strengths ELSE Arr(<<>>),
     improvements |-> IF IsArray(rawAnalysis.improvements)
                      THEN rawAnalysis.improvements ELSE Arr(<<>>),
     tailoring |-> IF IsArray(rawAnalysis.tailoring) THEN rawAnalysis.tailoring ELSE Arr(<<>>),
     customizedResume |-> IF IsString(rawAnalysis.customizedResume)
                          THEN rawAnalysis.customizedResume ELSE Undefined,
     specificChanges |-> IF IsString(rawAnalysis.specificChanges)
                         THEN rawAnalysis.specificChanges ELSE Undefined,
     coverLetter |-> IF IsString(rawAnalysis.coverLetter)
                     THEN rawAnalysis.coverLetter ELSE Undefined]

\* setAnalysis(sane) (line 375): the state becomes the value passed.
SetAnalysisMerged(prev, sane) ==
    IF prev = Null THEN sane
    ELSE [k \in DOMAIN sane |-> IF sane[k] = Undefined THEN prev[k] ELSE sane[k]]
SetAnalysis(prev, sane) == sane

\* What the observer notes when the run of slot r completes: the response
\* it got (status 0 and no body when fetch or resp.json() rejected), whether
\* the other run was in flight at that moment, and the result held just
\* before.
Completion(r, answered) ==
    [run |-> r,
     status |-> IF answered THEN srv[r].status ELSE 0,
     response |-> IF answered THEN srv[r].analysis ELSE Null,
     racing |-> \E o \in {"full", "cl"} \ {r} : srv[o].pc # "idle",
     held |-> analysis]

\* Lines 322-344: await fetch(...) of handleAnalyze is over with a response;
\* the call goes on to await resp.json(), of line 334 when the status is
\* not OK and of line 344 when it is.  No state of the page is read or
\* written on the way.
AnalyzeFetchResolves ==
    /\ srv["full"].pc = "responded"
    /\ srv' = [srv EXCEPT !["full"].pc = "json"]
    /\ UNCHANGED <<openai, clientVars, runs, apiRequests, uploads, aux>>

\* Lines 334-391: await resp.json() of handleAnalyze is over with the body,
\* and the call runs to its end.  setAnalysis stores a new object, so the
\* effect of lines 34-50 is due once more, for the render that shows this
\* object.
AnalyzeResponseStep ==
    /\ srv["full"].pc = "json"
    /\ IF srv["full"].status = 200
       THEN /\ analysis' = SetAnalysis(analysis, Sane(srv["full"].analysis))
            /\ toast' = "Analysis Complete!"
            /\ pendingEffects' = Append(pendingEffects, analysis')
       ELSE /\ toast' = "Analysis failed"
            /\ UNCHANGED <<analysis, pendingEffects>>
    /\ UNCHANGED activeTab
    /\ isAnalyzing' = FALSE
    /\ srv' = [srv EXCEPT !["full"] = IdleSlot]
    /\ UNCHANGED <<openai, resumeText, jobDescription, isGeneratingCoverLetter,
                   uploadedFile, isProcessingPDF, extracting, runs, apiRequests,
                   local, stub, uploads>>
HandleAnalyzeResponse == AnalyzeResponseStep /\ UNCHANGED log
ObservedAnalyzeResponse ==
    /\ AnalyzeResponseStep
    /\ log' = Append(log, Completion("full", TRUE))

\* Lines 206 and 215: the two checks handleGenerateCoverLetter makes first.
CoverLetterInputsMissingUntrimmed == resumeText = <<>> \/ jobDescription = <<>>
CoverLetterInputsMissing == trim(resumeText) = <<>> \/ trim(jobDescription) = <<>>

\* handleGenerateCoverLetter up to the fetch (lines 205-234), whatever the
\* state of the page it is called in.
GenerateCoverLetterCall ==
    /\ runs < MaxRuns
    /\ runs' = runs + 1
    /\ IF CoverLetterInputsMissing
       THEN /\ toast' = "Error"
            /\ UNCHANGED <<srv, isGeneratingCoverLetter>>
       ELSE /\ isGeneratingCoverLetter' = TRUE
            /\ srv' = [srv EXCEPT !["cl"] = Post]
            /\ UNCHANGED toast
    /\ UNCHANGED <<openai, resumeText, jobDescription, isAnalyzing, analysis,
                   uploadedFile, isProcessingPDF, extracting, apiRequests, aux, uploads>>

\* A click on the "Generate Cover Letter" button (lines 581-599).
HandleGenerateCoverLetter ==
    /\ ~CoverLetterButtonDisabled
    /\ GenerateCoverLetterCall

\* Lines 258-285: is the coverLetter of the response accepted as a letter?
LetterAcceptedAnyString(rawAnalysis) ==
    /\ Truthy(rawAnalysis.coverLetter)
    /\ IsString(rawAnalysis.coverLetter)
LetterAccepted(rawAnalysis) ==
    /\ Truthy(rawAnalysis.coverLetter)
    /\ IsString(rawAnalysis.coverLetter)
    /\ ~includes(rawAnalysis.coverLetter.v, "generation failed")
    /\ ~includes(rawAnalysis.coverLetter.v, "empty response")
\* Lines 266-273: the updater passed to setAnalysis,  {...prev || {...}, coverLetter}.
MergeCoverLetterFromResponse(prev, rawAnalysis) ==
    [Sane(rawAnalysis) EXCEPT !.coverLetter = rawAnalysis.coverLetter]
MergeCoverLetterIgnoringPrev(prev, rawAnalysis) ==
    [DefaultAnalysis EXCEPT
       !.strengths = IF IsArray(rawAnalysis.strengths)
                     THEN rawAnalysis.strengths ELSE Arr(<<>>),
       !.improvements = IF IsArray(rawAnalysis.improvements)
                        THEN rawAnalysis.improvements ELSE Arr(<<>>),
       !.tailoring = IF IsArray(rawAnalysis.tailoring)
                     THEN rawAnalysis.tailoring ELSE Arr(<<>>),
       !.coverLetter = rawAnalysis.coverLetter]
MergeCoverLetter(prev, rawAnalysis) ==
    LET base == IF prev # Null THEN prev
                ELSE [DefaultAnalysis EXCEPT
                        !.strengths = IF IsArray(rawAnalysis.strengths)
                                      THEN rawAnalysis.strengths ELSE Arr(<<>>),
                        !.improvements = IF IsArray(rawAnalysis.improvements)
                                         THEN rawAnalysis.improvements ELSE Arr(<<>>),
                        !.tailoring = IF IsArray(rawAnalysis.tailoring)
                                      THEN rawAnalysis.tailoring ELSE Arr(<<>>)]
    IN [base EXCEPT !.coverLetter = rawAnalysis.coverLetter]

\* Lines 227-248: await fetch(...) of handleGenerateCoverLetter is over
\* with a response; the call goes on to await resp.json(), of line 239 when
\* the status is not OK and of line 248 when it is.
GenerateCoverLetterFetchResolves ==
    /\ srv["cl"].pc = "responded"
    /\ srv' = [srv EXCEPT !["cl"].pc = "json"]
    /\ UNCHANGED <<openai, clientVars, runs, apiRequests, uploads, aux>>

\* Lines 239-296: await resp.json() of handleGenerateCoverLetter is over
\* with the body, and the call runs to its end.
GenerateCoverLetterResponseStep ==
    /\ srv["cl"].pc = "json"
    /\ IF srv["cl"].status = 200 /\ LetterAccepted(srv["cl"].analysis)
       THEN /\ analysis' = MergeCoverLetter(analysis, srv["cl"].analysis)
            /\ activeTab' = "coverLetter"
            /\ pendingEffects' = Append(pendingEffects, analysis')
            /\ toast' = "Cover Letter Generated!"
       ELSE /\ toast' = "Cover letter generation failed"
            /\ UNCHANGED <<analysis, activeTab, pendingEffects>>
    /\ isGeneratingCoverLetter' = FALSE
    /\ srv' = [srv EXCEPT !["cl"] = IdleSlot]
    /\ UNCHANGED <<openai, resumeText, jobDescription, isAnalyzing, uploadedFile,
                   isProcessingPDF, extracting, runs, apiRequests, local, stub, uploads>>
HandleGenerateCoverLetterResponse ==
    GenerateCoverLetterResponseStep /\ UNCHANGED log
ObservedGenerateCoverLetterResponse ==
    /\ GenerateCoverLetterResponseStep
    /\ log' = Append(log, Completion("cl", TRUE))

\* Lines 34-50: useEffect(..., [analysis]).  The effect of a render reads
\* the analysis of that render, and the effects run in the order of the
\* renders.
TabFor(a, current) ==
    IF a = Null THEN current
    ELSE IF Truthy(a.specificChanges) THEN "changes"
    ELSE IF Truthy(a.customizedResume) THEN "customized"
    ELSE IF Truthy(a.coverLetter) THEN "coverLetter"
    ELSE current
RunEffect ==
    /\ pendingEffects # <<>>
    /\ pendingEffects' = Tail(pendingEffects)
    /\ activeTab' = TabFor(Head(pendingEffects), activeTab)
    /\ UNCHANGED <<serverVars, clientVars, runs, apiRequests, uploads, local, log, stub>>

\* The results card (lines 623-1040), rendered while a result is held.  The
\* triggers of its tabs (lines 643-668), and the field each tab shows.
TabField(tab) ==
    CASE tab = "coverLetter" -> "coverLetter"
      [] tab = "changes" -> "specificChanges"
      [] OTHER -> "customizedResume"
TabsList(a) ==
    {tab \in {"coverLetter", "changes", "customized"} : Truthy(a[TabField(tab)])}
\* Tabs onValueChange={setActiveTab} (line 636): the user selects a tab.
SetActiveTab ==
    /\ analysis # Null
    /\ \E tab \in TabsList(analysis) : tab # activeTab /\ activeTab' = tab
    /\ UNCHANGED <<serverVars, clientVars, runs, apiRequests, uploads, local, log,
                   pendingEffects, stub>>
\* TabsContent (lines 672, 750, 923): the content of a tab, its buttons
\* included, is on the page while the tab is the active one.
TabsContent(tab) ==
    /\ analysis # Null
    /\ Truthy(analysis[TabField(tab)])
    /\ activeTab = tab
\* onClick of the two "Copy Text" buttons (lines 763-769 and 936-942).
CopyText ==
    /\ TabsContent("coverLetter") \/ TabsContent("customized")
    /\ toast' = "Copied!"
    /\ UNCHANGED <<serverVars, resumeText, jobDescription, isAnalyzing,
                   isGeneratingCoverLetter, analysis, uploadedFile, isProcessingPDF,
                   extracting, runs, apiRequests, uploads, aux>>
\* The "Download" button of the cover letter (lines 186-203 and 777).
HandleDownloadCoverLetter ==
    /\ TabsContent("coverLetter")
    /\ toast' = "Downloaded!"
    /\ UNCHANGED <<serverVars, resumeText, jobDescription, isAnalyzing,
                   isGeneratingCoverLetter, analysis, uploadedFile, isProcessingPDF,
                   extracting, runs, apiRequests, uploads, aux>>
\* The "Download as Text" button of the customized resume (lines 150-167
\* and 950).
HandleDownloadResume ==
    /\ TabsContent("customized")
    /\ toast' = "Downloaded!"
    /\ UNCHANGED <<serverVars, resumeText, jobDescription, isAnalyzing,
                   isGeneratingCoverLetter, analysis, uploadedFile, isProcessingPDF,
                   extracting, runs, apiRequests, uploads, aux>>
\* What the user does with the results card.
ResultsCard ==
    \/ SetActiveTab
    \/ CopyText
    \/ HandleDownloadCoverLetter
    \/ HandleDownloadResume

\* The await the handler is suspended at rejects: fetch (the request does
\* not reach the server, or its response is lost) or, of a response that is
\* OK, resp.json() (the body does not arrive whole).  The catch clause
\* reports it, finally lowers the busy flag.  A rejected resp.json() of a
\* response that is not OK is ignored (lines 242-244 and 337-339) and the
\* error thrown next ends the call the same way.
FreeLost == IF srv["lost1"].pc = "idle" THEN "lost1" ELSE "lost2"
\* The page awaits the request of slot r no more.  The request was lost on
\* its way to the server, or its response on the way back, whole or in
\* part; or the request is the handler's alone from now on, which has it or
\* is still to get it.
Abandon(r) ==
    \/ /\ srv[r].pc \in {"sent", "responded", "json"}
       /\ srv' = [srv EXCEPT ![r] = IdleSlot]
    \/ /\ srv[r].pc \in Tasks \cup {"sent"}
       /\ srv[FreeLost].pc = "idle"
       /\ srv' = [srv EXCEPT ![r] = IdleSlot, ![FreeLost] = srv[r]]
FetchRejectsStepNoFinally(r) ==
    /\ r \in {"full", "cl"}
    /\ srv[r].pc # "idle"
    /\ Abandon(r)
    /\ toast' = IF r = "full" THEN "Analysis failed" ELSE "Cover letter generation failed"
    /\ UNCHANGED <<openai, resumeText, jobDescription, analysis, uploadedFile,
                   isAnalyzing, isGeneratingCoverLetter,
                   isProcessingPDF, extracting, runs, apiRequests, local, stub, uploads,
                   view>>
FetchRejectsStep(r) ==
    /\ r \in {"full", "cl"}
    /\ srv[r].pc # "idle"
    /\ Abandon(r)
    /\ isAnalyzing' = IF r = "full" THEN FALSE ELSE isAnalyzing
    /\ isGeneratingCoverLetter' = IF r = "cl" THEN FALSE ELSE isGeneratingCoverLetter
    /\ toast' = IF r = "full" THEN "Analysis failed" ELSE "Cover letter generation failed"
    /\ UNCHANGED <<openai, resumeText, jobDescription, analysis, uploadedFile,
                   isProcessingPDF, extracting, runs, apiRequests, local, stub, uploads,
                   view>>
FetchRejects(r) == FetchRejectsStep(r) /\ UNCHANGED log
\* res.json(analysis) of a request nobody awaits any more (line 357).
LostResponse(r) ==
    /\ r \in LostSlots
    /\ srv[r].pc = "responded"
    /\ srv' = [srv EXCEPT ![r] = IdleSlot]
    /\ UNCHANGED <<openai, clientVars, runs, apiRequests, aux, uploads>>
ObservedFetchRejects(r) ==
    /\ FetchRejectsStep(r)
    /\ log' = Append(log, Completion(r, FALSE))

\* The direct caller reads its response.
ApiResponseStep ==
    /\ srv["api"].pc = "responded"
    /\ srv' = [srv EXCEPT !["api"] = IdleSlot]
    /\ UNCHANGED <<openai, clientVars, runs, apiRequests, uploads, local, view, stub>>
ApiResponse == ApiResponseStep /\ UNCHANGED log
\* The observer notes the request and the response the caller got.
ObservedApiResponse ==
    /\ ApiResponseStep
    /\ log' = Append(log, [body |-> srv["api"].body, status |-> srv["api"].status,
                           response |-> srv["api"].analysis])

InitWith(client) ==
    /\ openai \in BOOLEAN
    /\ stub = client
    /\ srv = [r \in Slots |-> IdleSlot]
    /\ resumeText = <<>>
    /\ jobDescription = <<>>
    /\ isAnalyzing = FALSE
    /\ isGeneratingCoverLetter = FALSE
    /\ analysis = Null
    /\ uploadedFile = Null
    /\ isProcessingPDF = FALSE
    /\ extracting = {}
    /\ toast = ""
    /\ runs = 0
    /\ uploads = 0
    /\ apiRequests = 0
    /\ local = <<>>
    /\ log = <<>>
    /\ activeTab = "coverLetter"
    /\ pendingEffects = <<>>
Init == InitWith(NoStub)

\* The handler serving the request of slot r: one step of it.
Serve(r) ==
    \/ Receive(r)
    \/ AnalysisReturn(r)
    \/ CustomizeReturn(r)
    \/ ChangesReturn(r)
    \/ CoverLetterReturn(r)

\* The page and the server behind it.
NextPage ==
    \/ \E r \in PageSlots : Serve(r)
    \/ \E r \in LostSlots : LostResponse(r)
    \/ HandleFileUpload
    \/ \E f \in Files : ArrayBuffer(f)
    \/ \E f \in Files : GetDocument(f)
    \/ \E f \in Files : GetPage(f)
    \/ \E f \in Files : GetTextContent(f)
    \/ RemovePdf
    \/ SetJobDescription
    \/ HandleAnalyze
    \/ AnalyzeFetchResolves
    \/ HandleAnalyzeResponse
    \/ HandleGenerateCoverLetter
    \/ GenerateCoverLetterFetchResolves
    \/ HandleGenerateCoverLetterResponse
    \/ \E r \in {"full", "cl"} : FetchRejects(r)
    \/ RunEffect
    \/ ResultsCard

\* The server and a direct caller of its API.
NextApi ==
    \/ Serve("api")
    \/ ApiPost
    \/ ApiResponse

Next == NextPage \/ NextApi

Spec == Init /\ [][Next]_vars
SpecPage == Init /\ [][NextPage]_vars
SpecApi == Init /\ [][NextApi]_vars

\* The server with a deterministic stub for generation client, and a caller
\* of its API whose requests and responses the observer notes.
InitStub == InitWith([on |-> TRUE, replies |-> <<>>])
NextStub ==
    \/ Serve("api")
    \/ StubDecides("api")
    \/ StubPost
    \/ ObservedApiResponse
SpecStub == InitStub /\ [][NextStub]_vars

\* The runs of the page with the results tabs, no observer.
NextTabs ==
    \/ \E r \in PageSlots : Serve(r)
    \/ \E r \in LostSlots : LostResponse(r)
    \/ ~isAnalyzing /\ AnalyzeCall
    \/ ~isGeneratingCoverLetter /\ GenerateCoverLetterCall
    \/ AnalyzeFetchResolves
    \/ HandleAnalyzeResponse
    \/ GenerateCoverLetterFetchResolves
    \/ HandleGenerateCoverLetterResponse
    \/ \E r \in {"full", "cl"} : FetchRejects(r)
    \/ RunEffect
    \/ ResultsCard

\* The page with its upload area, extraction await by await, and its two
\* buttons, up to the requests they send.
NextSession ==
    \/ PickFile
    \/ \E f \in Files : ArrayBuffer(f)
    \/ \E f \in Files : GetDocument(f)
    \/ \E f \in Files : GetPage(f)
    \/ \E f \in Files : GetTextContent(f)
    \/ RemovePdf
    \/ SetJobDescription
    \/ HandleAnalyze
    \/ HandleGenerateCoverLetter
SpecSession == Init /\ [][NextSession]_vars

\* The upload area alone, extraction await by await.
NextUpload ==
    \/ PickFile
    \/ \E f \in Files : ArrayBuffer(f)
    \/ \E f \in Files : GetDocument(f)
    \/ \E f \in Files : GetPage(f)
    \/ \E f \in Files : GetTextContent(f)
    \/ RemovePdf
SpecUpload == Init /\ [][NextUpload]_vars

\* The two handlers called on any state of the page, one call of each at a
\* time, with an observer noting the runs as they complete.  The page
\* states drawn are the ones its uploads and edits lead to, and a resume
\* text of blanks only.
ResumeTexts == { <<>>, <<" ">>, trim(ExtractedText(FilePages("cv.pdf"))) }
HeldResult == [DefaultAnalysis EXCEPT !.coverLetter = Str(<<"text-0">>)]
InitRuns ==
    /\ openai \in BOOLEAN
    /\ srv = [r \in Slots |-> IdleSlot]
    /\ resumeText \in ResumeTexts
    /\ jobDescription \in JobDescriptions
    /\ isAnalyzing = FALSE
    /\ isGeneratingCoverLetter = FALSE
    /\ analysis \in {Null, HeldResult}
    /\ uploadedFile \in {Null, File("cv.pdf")}
    /\ isProcessingPDF = FALSE
    /\ extracting = {}
    /\ toast = ""
    /\ runs = 0
    /\ uploads = 0
    /\ apiRequests = 0
    /\ local = <<>>
    /\ log = <<>>
    /\ activeTab = "coverLetter"
    /\ pendingEffects = <<>>
    /\ stub = NoStub

NextRuns ==
    \/ \E r \in PageSlots : Serve(r)
    \/ \E r \in LostSlots : LostResponse(r)
    \/ ~isAnalyzing /\ AnalyzeCall
    \/ ~isGeneratingCoverLetter /\ GenerateCoverLetterCall
    \/ AnalyzeFetchResolves
    \/ ObservedAnalyzeResponse
    \/ GenerateCoverLetterFetchResolves
    \/ ObservedGenerateCoverLetterResponse
    \/ \E r \in {"full", "cl"} : ObservedFetchRejects(r)
    \/ RunEffect
    \/ ResultsCard

SpecRuns == InitRuns /\ [][NextRuns]_vars
SpecTabs == InitRuns /\ [][NextTabs]_vars

\* The runs of the page when the generation service may give a reply of
\* any kind to each call: a rejection, an object without choices, no
\* content, an empty or blank text, a text; and to the analysis call a text
\* without braces, with braces in the wrong order or one brace only, with
\* braces that hold no JSON, with JSON whose keys are no arrays, or a
\* well-formed one.  Left out are one analysis text and one free text that
\* differ from a text kept only in the strings they carry.
AnyReply(task) ==
    IF task = "analysis"
    THEN AnalysisReplies \ {Resolved(Str(<<"{", "S=[a,#1]", ",", "T=[b,c]", "}">>))}
    ELSE FreeTextReplies \ {Resolved(Str(<<"text-2">>))}
\* The handler's step after the call of `task` made for the request of slot
\* r: the block of that task, for any reply; the observer keeps no note of
\* the reply.
ReturnAnyReply(r, task) ==
    /\ srv[r].pc = task
    /\ \E reply \in AnyReply(task) :
         LET s == CASE task = "analysis" -> AnalysisStep(srv[r], reply)
                    [] task = "customization" -> CustomizeStep(srv[r], reply)
                    [] task = "specificChanges" -> ChangesStep(srv[r], reply)
                    [] OTHER -> CoverLetterStep(srv[r], reply)
         IN srv' = [srv EXCEPT ![r] = [s EXCEPT !.reply = IdleSlot.reply]]
    /\ UNCHANGED <<openai, clientVars, runs, apiRequests, aux, uploads>>
ServeAnyReply(r) ==
    \/ Receive(r)
    \/ \E task \in Tasks : ReturnAnyReply(r, task)
NextReplies ==
    \/ \E r \in PageSlots : ServeAnyReply(r)
    \/ \E r \in LostSlots : LostResponse(r)
    \/ ~isAnalyzing /\ AnalyzeCall
    \/ ~isGeneratingCoverLetter /\ GenerateCoverLetterCall
    \/ AnalyzeFetchResolves
    \/ HandleAnalyzeResponse
    \/ GenerateCoverLetterFetchResolves
    \/ HandleGenerateCoverLetterResponse
    \/ \E r \in {"full", "cl"} : FetchRejects(r)
    \/ RunEffect
    \/ ResultsCard
\* The page when cv.pdf has been read and a job description typed.
InitReplies ==
    /\ InitRuns
    /\ resumeText = trim(ExtractedText(FilePages("cv.pdf")))
    /\ jobDescription = <<" ", "Job", " ">>
    /\ uploadedFile = File("cv.pdf")
    /\ analysis = Null
SpecReplies == InitReplies /\ [][NextReplies]_vars

\* ------------------------------------------------------------ claims
IsPrefix(a, b) == Len(a) <= Len(b) /\ a = SubSeq(b, 1, Len(a))
Failed(reply) == reply.kind \in {"rejected", "malformed"}
Blank(reply) == reply.kind = "resolved" /\ trim(ContentOf(reply)) = <<>>
Attempted(s, task) == \E i \in DOMAIN s.issued : s.issued[i] = task
Answered(s) == s.pc = "responded" /\ s.status = 200
HasTriple(a) == IsArray(a.strengths) /\ IsArray(a.improvements) /\ IsArray(a.tailoring)
IsDefaultTriple(a) ==
    /\ a.strengths = DefaultStrengths
    /\ a.improvements = DefaultImprovements
    /\ a.tailoring = DefaultTailoring
OtherFields == {"strengths", "improvements", "tailoring", "customizedResume",
                "specificChanges"}

\* C1: the generation calls of one request are issued in the order analysis,
\* customization, specificChanges, coverLetter (what has been issued so far
\* is a prefix of that order), and the only call that can be in flight is the
\* one issued last: never two at once.
C1_SequentialInOrder ==
    \A r \in Slots :
        /\ IsPrefix(srv[r].issued, TaskOrder)
        /\ Cardinality(srv[r].inflight) <= 1
        /\ srv[r].inflight # {} =>
             srv[r].inflight = {srv[r].issued[Len(srv[r].issued)]}
C1_Witness ==
    /\ srv["api"].pc = "responded"
    /\ trim(BodyJobDescription(srv["api"].body)) # <<>>
    /\ srv["api"].issued = TaskOrder

\* C2 (as claimed): when the analysis call of a request with a non-blank job
\* description fails, the response carries the default triple and the
\* customization, specificChanges and coverLetter calls were all attempted.
C2_AnalysisFailureDoesNotAbort ==
    \A r \in Slots :
        (/\ Answered(srv[r])
         /\ Failed(srv[r].reply["analysis"])
         /\ trim(BodyJobDescription(srv[r].body)) # <<>>)
        => /\ IsDefaultTriple(srv[r].analysis)
           /\ Attempted(srv[r], "customization")
           /\ Attempted(srv[r], "specificChanges")
           /\ Attempted(srv[r], "coverLetter")

\* C3: a failed customization (specificChanges) call leaves customizedResume
\* (specificChanges) absent and every later task is still attempted; when
\* only customization fails and the two later calls return text, both
\* specificChanges and coverLetter are present.
C3_FailureIsolation ==
    \A r \in Slots :
        Answered(srv[r]) =>
          /\ Failed(srv[r].reply["customization"]) =>
               /\ srv[r].analysis.customizedResume = Undefined
               /\ Attempted(srv[r], "specificChanges")
               /\ Attempted(srv[r], "coverLetter")
               /\ (srv[r].reply["specificChanges"].kind = "resolved"
                     /\ ~Blank(srv[r].reply["specificChanges"]))
                    => IsString(srv[r].analysis.specificChanges)
               /\ IsString(srv[r].analysis.coverLetter)
          /\ Failed(srv[r].reply["specificChanges"]) =>
               /\ srv[r].analysis.specificChanges = Undefined
               /\ Attempted(srv[r], "coverLetter")
               /\ IsString(srv[r].analysis.coverLetter)
C3_Witness ==
    /\ Answered(srv["api"])
    /\ srv["api"].reply["customization"].kind = "rejected"
    /\ srv["api"].analysis.customizedResume = Undefined
    /\ srv["api"].analysis.specificChanges = Str(<<"text-1">>)
    /\ srv["api"].analysis.coverLetter = Str(<<"text-2">>)

\* C4: the step in which the cover-letter call of a request ends answers the
\* request with a 200 whose other fields are the ones held before the call,
\* whatever the outcome of the call; when the call failed, coverLetter is a
\* non-empty string that embeds the message of the cause, and the page's
\* coercion of the response keeps that string.
C4_Step ==
    \A r \in Slots :
        (srv[r].pc = "coverLetter" /\ srv'[r].pc = "responded") =>
            /\ srv'[r].status = 200
            /\ \A k \in OtherFields : srv'[r].analysis[k] = srv[r].analysis[k]
            /\ Failed(srv'[r].reply["coverLetter"]) =>
                 /\ IsString(srv'[r].analysis.coverLetter)
                 /\ Truthy(srv'[r].analysis.coverLetter)
                 /\ includes(srv'[r].analysis.coverLetter.v,
                             Thrown(srv'[r].reply["coverLetter"]).message)
                 /\ Sane(srv'[r].analysis).coverLetter = srv'[r].analysis.coverLetter
\* C4: every step of every behaviour satisfies C4_Step.
C4_CoverLetterFailureIsAValue == [][C4_Step]_vars
C4_Witness ==
    /\ Answered(srv["full"])
    /\ srv["full"].reply["coverLetter"].kind = "rejected"
    /\ srv["full"].analysis.coverLetter = FailedNotice(ApiError)

\* C5: every 200 response of the handler, and the page's analysis state
\* whenever it is not null, holds strengths, improvements and tailoring as
\* arrays, whatever the service replied to each of the calls (a failure, no
\* content, a blank text, a text without a JSON object, a JSON object whose
\* keys are no arrays) and whatever runs came before.
C5_TripleAlwaysArrays ==
    /\ \A r \in Slots :
          (srv[r].pc \in {"responded", "json"} /\ srv[r].status = 200)
          => HasTriple(srv[r].analysis)
    /\ analysis # Null => HasTriple(analysis)
\* The result of a full run is held whose analysis reply had no content or
\* no JSON object (the default triple next to a later task's outcome), whose
\* customization reply failed or was blank, whose specificChanges reply was
\* a text and whose cover-letter reply was empty or blank; and a
\* cover-letter-only run is answered by a response whose analysis reply was
\* a JSON object with a string for strengths and no tailoring.
C5_Witness ==
    /\ analysis # Null
    /\ IsDefaultTriple(analysis)
    /\ analysis.customizedResume = Undefined
    /\ analysis.specificChanges = Str(<<"text-1">>)
    /\ analysis.coverLetter = EmptyNotice
    /\ srv["cl"].pc = "json"
    /\ srv["cl"].status = 200
    /\ srv["cl"].analysis.strengths = Arr(<<>>)
    /\ srv["cl"].analysis.improvements = Arr(<<"x">>)
    /\ srv["cl"].analysis.tailoring = Arr(<<>>)
    /\ srv["cl"].analysis.coverLetter = FailedNotice(TypeError)

\* C6: a request whose job description is blank after trimming issues the
\* analysis call and no other, and its response has customizedResume,
\* specificChanges and coverLetter absent.
C6_BlankJobDescription ==
    \A r \in Slots :
        (Answered(srv[r]) /\ trim(BodyJobDescription(srv[r].body)) = <<>>)
        => /\ srv[r].issued = <<"analysis">>
           /\ srv[r].analysis.customizedResume = Undefined
           /\ srv[r].analysis.specificChanges = Undefined
           /\ srv[r].analysis.coverLetter = Undefined
C6_Witness ==
    /\ Answered(srv["api"])
    /\ srv["api"].body.jobDescription = Str(<<" ">>)
    /\ srv["api"].reply["analysis"].kind = "resolved"

\* C7 (as claimed): for each of customizedResume, specificChanges and
\* coverLetter, a call that returns blank text leaves the field absent, and
\* the field is present only if the call succeeded with non-blank text.
TaskField(task) == IF task = "customization" THEN "customizedResume" ELSE task
C7_FreeTextPresentOnlyOnText ==
    \A r \in Slots :
        Answered(srv[r]) =>
          \A task \in {"customization", "specificChanges", "coverLetter"} :
            /\ Blank(srv[r].reply[task]) => srv[r].analysis[TaskField(task)] = Undefined
            /\ srv[r].analysis[TaskField(task)] # Undefined =>
                 /\ srv[r].reply[task].kind = "resolved"
                 /\ ~Blank(srv[r].reply[task])
\* C7 (amended): customizedResume and specificChanges are the trimmed text of
\* a call that succeeded with non-blank text and absent otherwise; coverLetter
\* is absent only when no cover-letter call was made, and otherwise is the
\* trimmed text, the empty-response notice (blank text) or the failure notice
\* (failed call).
C7_FreeTextFields ==
    \A r \in Slots :
        Answered(srv[r]) =>
          /\ \A task \in {"customization", "specificChanges"} :
               srv[r].analysis[TaskField(task)] =
                 IF srv[r].reply[task].kind = "resolved" /\ ~Blank(srv[r].reply[task])
                 THEN Str(trim(ContentOf(srv[r].reply[task])))
                 ELSE Undefined
          /\ srv[r].analysis.coverLetter =
               IF ~Attempted(srv[r], "coverLetter") THEN Undefined
               ELSE IF Failed(srv[r].reply["coverLetter"])
                    THEN FailedNotice(Thrown(srv[r].reply["coverLetter"]))
               ELSE IF Blank(srv[r].reply["coverLetter"]) THEN EmptyNotice
               ELSE Str(trim(ContentOf(srv[r].reply["coverLetter"])))
C7_Witness ==
    /\ Answered(srv["api"])
    /\ srv["api"].reply["customization"] = Resolved(Str(<<" ">>))
    /\ srv["api"].reply["coverLetter"] = Resolved(Str(<<" ">>))
    /\ srv["api"].analysis.coverLetter = EmptyNotice

\* C8 (as claimed): a request that passed the credential check and the
\* resume-text check (a credential is configured, resumeText is a string
\* that is not blank) is answered with a 200 carrying a Pipeline Result.
PassedChecks(body) ==
    /\ openai
    /\ IsString(body.resumeText)
    /\ trim(body.resumeText.v) # <<>>
C8_AlwaysAResult ==
    \A r \in Slots :
        (srv[r].pc = "responded" /\ PassedChecks(srv[r].body))
        => /\ srv[r].status = 200
           /\ srv[r].analysis # Null

\* C9 (as claimed): the request of a cover-letter-only run causes the
\* cover-letter call and no other generation call.
C9_CoverLetterOnlyOneCall ==
    srv["cl"].pc = "responded" /\ srv["cl"].status = 200
      => srv["cl"].issued = <<"coverLetter">>

\* C10: the step that ends a cover-letter-only run while a result is held
\* leaves strengths, improvements, tailoring, customizedResume and
\* specificChanges of the held result as they were, and when the run
\* succeeded coverLetter is the letter of the response.
C10_Step ==
    (srv["cl"].pc = "json" /\ srv'["cl"].pc = "idle" /\ analysis # Null) =>
        /\ \A k \in OtherFields : analysis'[k] = analysis[k]
        /\ toast' = "Cover Letter Generated!" =>
             analysis'.coverLetter = srv["cl"].analysis.coverLetter
\* C10: every step of every behaviour satisfies C10_Step.
C10_MergeKeepsOtherFields == [][C10_Step]_vars
C10_Witness ==
    /\ toast = "Cover Letter Generated!"
    /\ analysis # Null
    /\ analysis.customizedResume = Str(<<"text-1">>)
    /\ analysis.specificChanges = Undefined
    /\ analysis.coverLetter = Str(<<"text-2">>)

\* C11: a call of handleGenerateCoverLetter (or of handleAnalyze) made while
\* the resume text or the job description is blank after trimming only shows
\* the "Error" toast: no request is sent, neither busy flag changes and the
\* held result is left as it was.
C11_Step ==
    (runs' # runs /\ (trim(resumeText) = <<>> \/ trim(jobDescription) = <<>>))
    => /\ srv' = srv
       /\ isGeneratingCoverLetter' = isGeneratingCoverLetter
       /\ isAnalyzing' = isAnalyzing
       /\ analysis' = analysis
       /\ toast' = "Error"
\* C11: every step of every behaviour satisfies C11_Step.
C11_ValidationBeforeAnything == [][C11_Step]_vars
C11_Witness ==
    /\ toast = "Error"
    /\ jobDescription = <<" ">>
    /\ resumeText = trim(ExtractedText(FilePages("cv.pdf")))
    /\ uploadedFile # Null
    /\ analysis = HeldResult
    /\ ~isGeneratingCoverLetter
    /\ srv["cl"] = IdleSlot

Last(q) == q[Len(q)]
FullRunSucceeded(c) == c.run = "full" /\ c.status = 200
CoverLetterRunSucceeded(c) ==
    c.run = "cl" /\ c.status = 200 /\ LetterAccepted(c.response)

\* C12: while the run that completed last is a full run answered with a 200,
\* the held result is that response coerced field by field: every field,
\* absent optional fields included, is the one of that run, whatever was
\* held before.
C12_FullRunReplacesResult ==
    (log # <<>> /\ FullRunSucceeded(Last(log)))
    => analysis = Sane(Last(log).response)
C12_Witness ==
    /\ Len(log) = 2
    /\ CoverLetterRunSucceeded(log[1])
    /\ log[1].response.coverLetter = Str(<<"text-2">>)
    /\ log[1].response.customizedResume = Str(<<"text-1">>)
    /\ FullRunSucceeded(log[2])
    /\ analysis.coverLetter = FailedNotice(ApiError)
    /\ analysis.customizedResume = Undefined

\* C13 (as claimed): when a full run and a cover-letter-only run were in
\* flight together and each got its response, the held result after the
\* second completion is the full run's result if the full run completed
\* last, and the full run's result with coverLetter replaced by the
\* coverLetter of the cover-letter-only run if that run completed last; no
\* other value.
C13_LastWriteWins ==
    Len(log) >= 2 =>
      LET first == log[Len(log) - 1]
          second == Last(log)
          full == IF first.run = "full" THEN first ELSE second
          cl == IF first.run = "cl" THEN first ELSE second
      IN (/\ first.racing
          /\ first.run # second.run
          /\ first.status = 200
          /\ second.status = 200)
         => analysis =
              IF second.run = "full" THEN Sane(full.response)
              ELSE [Sane(full.response) EXCEPT
                      !.coverLetter = cl.response.coverLetter]

\* What the completion c of a run leaves of the result prev held before it:
\* a full run answered with a 200 writes its own result, a cover-letter-only
\* run answered with a 200 that carries a letter writes that letter into the
\* result held (into the three arrays of its own response when none is
\* held), and any other completion writes nothing.
TripleOf(response) ==
    [DefaultAnalysis EXCEPT
       !.strengths = IF IsArray(response.strengths) THEN response.strengths ELSE Arr(<<>>),
       !.improvements = IF IsArray(response.improvements)
                        THEN response.improvements ELSE Arr(<<>>),
       !.tailoring = IF IsArray(response.tailoring) THEN response.tailoring ELSE Arr(<<>>)]
Written(c, prev) ==
    IF FullRunSucceeded(c) THEN Sane(c.response)
    ELSE IF CoverLetterRunSucceeded(c)
    THEN [(IF prev # Null THEN prev ELSE TripleOf(c.response)) EXCEPT
            !.coverLetter = c.response.coverLetter]
    ELSE prev
\* C13: when a full run and a cover-letter-only run were in flight together,
\* the held result after the second completion is what the writes of the two
\* runs leave, applied in the order of completion, where only a run that
\* succeeded writes.  So when both succeeded it is the full run's result if
\* the full run completed last and the full run's result with coverLetter
\* replaced by the letter of the cover-letter-only run if that run completed
\* last; and when the run that completed last failed, or was answered
\* without a letter, it is the result the first completion left.
C13_LastSuccessfulWriteWins ==
    Len(log) >= 2 =>
      LET first == log[Len(log) - 1]
          second == Last(log)
      IN (first.racing /\ first.run # second.run) =>
           /\ analysis = Written(second, Written(first, first.held))
           /\ (/\ FullRunSucceeded(first) \/ CoverLetterRunSucceeded(first)
               /\ FullRunSucceeded(second) \/ CoverLetterRunSucceeded(second))
              => analysis =
                   IF second.run = "full" THEN Sane(second.response)
                   ELSE [Sane(first.response) EXCEPT
                           !.coverLetter = second.response.coverLetter]
           /\ ~(FullRunSucceeded(second) \/ CoverLetterRunSucceeded(second))
              => analysis = second.held
C13_Witness ==
    /\ Len(log) = 2
    /\ log[1].racing
    /\ FullRunSucceeded(log[1])
    /\ log[1].response.coverLetter = Str(<<"text-1">>)
    /\ log[2].run = "cl"
    /\ log[2].status = 200
    /\ log[2].response.coverLetter = FailedNotice(ApiError)
    /\ analysis = Sane(log[1].response)
    /\ analysis.coverLetter = Str(<<"text-1">>)

\* The raw text of an analysis reply holds no JSON object the handler can
\* read: no "{", no "}", the last "}" not after the first "{", or the slice
\* between them is not valid JSON.
NoJsonObject(text) ==
    LET first == indexOf(text, "{")
        last == lastIndexOf(text, "}")
    IN \/ first = -1
       \/ last = -1
       \/ last <= first
       \/ ~JSONParses(slice(text, first, last + 1))

\* C14: a request whose analysis call returned text without a readable JSON
\* object is answered with exactly the fixed default triple.
C14_DefaultsWhenNoJson ==
    \A r \in Slots :
        (/\ Answered(srv[r])
         /\ srv[r].reply["analysis"].kind = "resolved"
         /\ NoJsonObject(ContentOf(srv[r].reply["analysis"])))
        => IsDefaultTriple(srv[r].analysis)
C14_Witness ==
    /\ Answered(srv["api"])
    /\ srv["api"].reply["analysis"] = Resolved(Str(<<"{", "S=[a]", "I=[]", "}">>))
    /\ IsDefaultTriple(srv["api"].analysis)
    /\ srv["api"].issued = TaskOrder

JsonSlice(text) == slice(text, indexOf(text, "{"), lastIndexOf(text, "}") + 1)
IsArrayOfStrings(x) == IsArray(x) /\ \A i \in DOMAIN x.v : x.v[i] \notin NumberElems

\* C15 (as claimed): when the JSON object of the analysis reply parses, each of
\* strengths, improvements and tailoring in the response is the parsed value
\* if that value is an array whose elements are all strings, and the empty
\* array otherwise (key missing, not an array, or an array with a non-string
\* element); other keys of the object have no effect.
C15_ArrayOfStringsOrEmpty ==
    \A r \in Slots :
        (/\ Answered(srv[r])
         /\ srv[r].reply["analysis"].kind = "resolved"
         /\ ~NoJsonObject(ContentOf(srv[r].reply["analysis"])))
        => LET json == JsonSlice(ContentOf(srv[r].reply["analysis"]))
           IN \A key \in {"strengths", "improvements", "tailoring"} :
                srv[r].analysis[key] =
                  IF IsArrayOfStrings(Property(json, key))
                  THEN Property(json, key) ELSE Arr(<<>>)

\* C16: while no credential is configured no generation call is ever issued
\* and every response is the 503; and the configured/unconfigured decision
\* taken at start never changes.
C16_NoCall ==
    ~openai =>
      \A r \in Slots :
        /\ srv[r].issued = <<>>
        /\ srv[r].inflight = {}
        /\ srv[r].pc \in {"idle", "sent", "responded"}
        /\ srv[r].pc = "responded" => srv[r].status = 503 /\ srv[r].analysis = Null
C16_ServiceUnavailable == [](C16_NoCall) /\ [][openai' = openai]_vars
C16_Witness ==
    /\ ~openai
    /\ apiRequests = 2
    /\ srv["api"].pc = "responded"
    /\ srv["api"].status = 503
    /\ srv["api"].body.resumeText = Str(<<"Resume">>)

BlankResumeText(body) ==
    ~Truthy(body.resumeText) \/ trim(body.resumeText.v) = <<>>

\* C17 (as claimed): a request whose resume text is missing, empty or blank
\* is answered with the 400, before any generation call.
C17_BlankResumeIs400 ==
    \A r \in Slots :
        (srv[r].pc = "responded" /\ BlankResumeText(srv[r].body))
        => srv[r].status = 400 /\ srv[r].issued = <<>>
\* C17 (amended): such a request is rejected before any generation call,
\* whatever its job description: with the 400 when a credential is
\* configured and with the 503 of the earlier credential check otherwise;
\* and a request for which a call was issued has a non-blank resume text.
C17_BlankResumeRejected ==
    \A r \in Slots :
        /\ (srv[r].pc = "responded" /\ BlankResumeText(srv[r].body))
           => /\ srv[r].status = IF openai THEN 400 ELSE 503
              /\ srv[r].issued = <<>>
        /\ srv[r].issued # <<>> => ~BlankResumeText(srv[r].body)
C17_Witness ==
    /\ openai
    /\ srv["api"].pc = "responded"
    /\ srv["api"].status = 400
    /\ srv["api"].body.resumeText = Str(<<" ">>)
    /\ srv["api"].body.jobDescription = Str(<<"Job">>)

FullText(f) == trim(ExtractedText(FilePages(f)))

\* C18 (as claimed): once the extraction of a document has failed (its
\* bytes cannot be read, it does not load, or one of its pages fails), and
\* as long as no other document is picked, uploadedFile is null and
\* resumeText is empty.
C18_FailureClears ==
    (\E n \in DOMAIN log : ~log[n].ok /\ log[n].picks = uploads)
    => uploadedFile = Null /\ resumeText = <<>>

\* C19: resumeText never is the text of a strict, non-empty prefix of the
\* pages of a document: it is empty or the text of all the pages of a
\* document that could be read.
C19_AllOrNothing ==
    /\ \A f \in Files : \A k \in 1..(Len(FilePages(f)) - 1) :
          resumeText # trim(ExtractedText(SubSeq(FilePages(f), 1, k)))
    /\ resumeText = <<>> \/ \E f \in Files : FileReadable(f) /\ resumeText = FullText(f)
C19_Witness ==
    /\ log # <<>>
    /\ Last(log).file = "torn.pdf"
    /\ ~Last(log).ok
    /\ Last(log).read = 1
    /\ Last(log).heldText = <<>>
    /\ resumeText = <<>>

\* The step starts an extraction of f.
Started(f) == \E k \in extracting' \ extracting : local'[k] = Suspended(f)

\* C20: the step in which a PDF document is picked rejects it as too large,
\* changing neither uploadedFile, resumeText, the processing flag nor the
\* set of extractions, if its size is 5 MiB + 1 byte or more; otherwise
\* (exactly 5 MiB included) the document becomes uploadedFile and its
\* extraction starts.
C20_Step ==
    \A f \in Files :
        (FileUploadStart(f) /\ FileIsPdf(f)) =>
            IF FileSize(f) >= 5 * 1024 * 1024 + 1
            THEN /\ toast' = "File too large"
                 /\ UNCHANGED <<uploadedFile, resumeText, isProcessingPDF,
                                extracting, local>>
            ELSE /\ uploadedFile' = File(f)
                 /\ isProcessingPDF'
                 /\ Started(f)
\* C20: every step of every behaviour satisfies C20_Step.
C20_SizeLimit == [][C20_Step]_vars
C20_Witness ==
    /\ toast = "File too large"
    /\ uploadedFile = File("limit.pdf")
    /\ resumeText = FullText("limit.pdf")
    /\ ~isProcessingPDF
    /\ extracting = {}

\* C21: the step in which a document is picked rejects it as an invalid
\* document exactly when its content type is not application/pdf and its
\* name, lower-cased, does not end in .pdf; the rejection comes before the
\* size check (an oversized non-PDF gets this toast) and changes neither
\* uploadedFile, resumeText, the processing flag nor the extractions.
C21_Step ==
    \A f \in Files :
        FileUploadStart(f) =>
            IF FileType(f) # "application/pdf"
               /\ LowerChunk(FileName(f)[Len(FileName(f))]) # ".pdf"
            THEN /\ toast' = "Invalid file type"
                 /\ UNCHANGED <<uploadedFile, resumeText, isProcessingPDF,
                                extracting, local>>
            ELSE \/ toast' = "File too large" /\ FileSize(f) > FiveMiB
                 \/ uploadedFile' = File(f) /\ Started(f)
\* C21: every step of every behaviour satisfies C21_Step.
C21_InvalidDocument == [][C21_Step]_vars
C21_Witness ==
    /\ toast = "Invalid file type"
    /\ uploadedFile = File("RESUME.PDF")
    /\ resumeText = FullText("RESUME.PDF")
    /\ ~isProcessingPDF
    /\ extracting = {}

\* The text the claim gives for a document: the runs of each page joined by
\* one blank (a non-text item is an empty run), the pages joined by one
\* newline, the whole trimmed.
RECURSIVE Joined(_, _)
Joined(parts, sep) ==
    IF parts = <<>> THEN <<>>
    ELSE IF Len(parts) = 1 THEN Head(parts)
    ELSE Head(parts) \o <<sep>> \o Joined(Tail(parts), sep)
Runs(page) == [i \in DOMAIN page |-> IF page[i] = "" THEN <<>> ELSE <<page[i]>>]
ClaimedText(pages) ==
    trim(Joined([i \in DOMAIN pages |-> Joined(Runs(pages[i]), " ")], "\n"))

\* C22: the step in which the extraction of a readable document of one or
\* more pages ends sets resumeText to the claimed text of its pages.
C22_Step ==
    \A k \in extracting \ extracting' :
        (FileReadable(local[k].file) /\ Len(FilePages(local[k].file)) >= 1)
        => resumeText' = ClaimedText(FilePages(local[k].file))
\* C22: every step of every behaviour satisfies C22_Step.
C22_ExtractedTextFormula == [][C22_Step]_vars
C22_Witness ==
    /\ log # <<>>
    /\ Last(log).file = "scan.bin"
    /\ Last(log).ok
    /\ Last(log).read = 3
    /\ resumeText = <<"Scan", "\n", "\n", "End">>

\* C23: the handler keeps nothing from one request to the next: against a
\* deterministic generation client, two requests with the same resumeText and
\* jobDescription get the same status and the same result, whatever requests
\* were served between them.
C23_HandlerStateless ==
    \A i \in DOMAIN log : \A j \in DOMAIN log :
        log[i].body = log[j].body =>
            /\ log[i].status = log[j].status
            /\ log[i].response = log[j].response
C23_Witness ==
    /\ Len(log) = 3
    /\ log[1].body = log[3].body
    /\ log[2].body # log[1].body
    /\ log[1].status = 200 /\ log[2].status = 200 /\ log[3].status = 200
    /\ log[2].response # log[1].response
    /\ log[1].response.customizedResume = DefaultAnalysis.customizedResume
    /\ log[2].response.customizedResume # DefaultAnalysis.customizedResume
    /\ log[3].response = log[1].response

\* C24: the page sends a full-run request only when a file is held, the
\* extracted text is not blank and the job description is not blank; a call
\* of handleAnalyze in any other state sends nothing and leaves the result
\* as it was.
FullRunReady ==
    /\ uploadedFile # Null
    /\ trim(resumeText) # <<>>
    /\ trim(jobDescription) # <<>>
C24_Step ==
    /\ (srv'["full"].pc = "sent" /\ srv'["full"] # srv["full"]) => FullRunReady
    /\ (AnalyzeCall /\ ~FullRunReady) =>
            /\ srv' = srv
            /\ analysis' = analysis
            /\ isAnalyzing' = isAnalyzing
C24_FullRunEntry == [][C24_Step]_vars
C24_Witness ==
    /\ runs > 0
    /\ toast = "Error"
    /\ uploadedFile = Null
    /\ trim(resumeText) # <<>>
    /\ trim(jobDescription) # <<>>
    /\ analysis = HeldResult
    /\ srv["full"].pc = "idle"
    /\ ~isAnalyzing

\* C25: within one request each of the four generation tasks is called at
\* most once, a failed or blank one included, so one request makes at most
\* four generation calls.
C25_EachTaskOnce ==
    \A r \in Slots :
        /\ Len(srv[r].issued) <= 4
        /\ \A i \in DOMAIN srv[r].issued : \A j \in DOMAIN srv[r].issued :
               srv[r].issued[i] = srv[r].issued[j] => i = j
C25_Witness ==
    /\ srv["api"].pc = "responded"
    /\ srv["api"].status = 200
    /\ srv["api"].issued = TaskOrder
    /\ srv["api"].reply["analysis"] = Resolved(Str(<<"Sorry, no JSON">>))
    /\ Failed(srv["api"].reply["customization"])
    /\ Blank(srv["api"].reply["specificChanges"])
    /\ Blank(srv["api"].reply["coverLetter"])

\* C26: whenever the page sends a full-run or a cover-letter-only request,
\* the resumeText of the request is the text extracted from the file held
\* as uploadedFile at that moment.
RequestSent(r) == srv'[r].pc = "sent" /\ srv'[r] # srv[r]
C26_Step ==
    \A r \in {"full", "cl"} :
        RequestSent(r) =>
            /\ uploadedFile # Null
            /\ srv'[r].body.resumeText = Str(FullText(uploadedFile.v[1]))
C26_SentTextIsOfHeldFile == [][C26_Step]_vars

\* C27: in every result of the handler, strengths, improvements and
\* tailoring are all three the defaults, or all three read from the one JSON
\* object of the analysis reply (the value of the key if it is an array, the
\* empty array otherwise): never a default next to a value read from the
\* reply.
TripleKeys == {"strengths", "improvements", "tailoring"}
DerivedFrom(json, key) ==
    IF IsArray(Property(json, key)) THEN Property(json, key) ELSE Arr(<<>>)
C27_TripleFromOneSource ==
    \A r \in Slots :
        Answered(srv[r]) =>
            LET a == srv[r].analysis
                reply == srv[r].reply["analysis"]
            IN /\ Cardinality({k \in TripleKeys : a[k] = DefaultAnalysis[k]}) \in {0, 3}
               /\ \/ IsDefaultTriple(a)
                  \/ /\ reply.kind = "resolved"
                     /\ ~NoJsonObject(ContentOf(reply))
                     /\ \A k \in TripleKeys :
                            a[k] = DerivedFrom(JsonSlice(ContentOf(reply)), k)
C27_Witness ==
    /\ Answered(srv["api"])
    /\ srv["api"].reply["analysis"] =
           Resolved(Str(<<"{", "S='a'", ",", "X=1", ",", "I=[x]", "}">>))
    /\ srv["api"].analysis.strengths = Arr(<<>>)
    /\ srv["api"].analysis.improvements # Arr(<<>>)
    /\ srv["api"].analysis.improvements # DefaultImprovements
    /\ srv["api"].analysis.tailoring = Arr(<<>>)

\* C28: when the response to a cover-letter-only run has no coverLetter, a
\* coverLetter that is not a string, or one of the two notices the server
\* stores in place of a letter, the step that handles it leaves the result
\* as it was (a stored coverLetter included), reports the failure and
\* lowers isGeneratingCoverLetter.
ServerNotices == {EmptyNotice, FailedNotice(ApiError), FailedNotice(TypeError)}
NoLetterIn(response) ==
    \/ response.coverLetter = Undefined
    \/ ~IsString(response.coverLetter)
    \/ response.coverLetter \in ServerNotices
C28_Step ==
    (/\ srv["cl"].pc = "json"
     /\ srv["cl"].status = 200
     /\ srv'["cl"].pc = "idle"
     /\ NoLetterIn(srv["cl"].analysis))
    => /\ analysis' = analysis
       /\ toast' = "Cover letter generation failed"
       /\ ~isGeneratingCoverLetter'
C28_NoLetterKeepsResult == [][C28_Step]_vars
C28_Witness ==
    /\ log # <<>>
    /\ Last(log).run = "cl"
    /\ Last(log).status = 200
    /\ Last(log).response.coverLetter = FailedNotice(ApiError)
    /\ analysis = HeldResult
    /\ toast = "Cover letter generation failed"
    /\ ~isGeneratingCoverLetter

\* C29: when a full run ends with a rejected fetch or a status other than
\* 200, the result held before is kept and "Analysis failed" is reported;
\* and whenever handleAnalyze is over, whatever its outcome, isAnalyzing is
\* false.
C29_Step ==
    /\ srv'["full"].pc = "idle" => ~isAnalyzing'
    /\ (AnalyzeCall /\ ~FullRunReady) => ~isAnalyzing'
    /\ (Len(log') = Len(log) + 1 /\ Last(log').run = "full"
           /\ Last(log').status # 200)
        => /\ analysis' = analysis
           /\ toast' = "Analysis failed"
           /\ ~isAnalyzing'
C29_FailedFullRun == [][C29_Step]_vars
C29_Witness ==
    /\ log # <<>>
    /\ Last(log).run = "full"
    /\ Last(log).status = 503
    /\ analysis = HeldResult
    /\ toast = "Analysis failed"
    /\ ~isAnalyzing

\* C30: after a cover-letter-only run has succeeded, the step in which the
\* last effect due runs (the effect of the result that run stored, as no
\* later toast has replaced the run's) leaves the cover-letter tab the
\* active one, whatever the retained result holds.
C30_Step ==
    (/\ toast = "Cover Letter Generated!"
     /\ Len(pendingEffects) = 1
     /\ pendingEffects' = <<>>)
    => activeTab' = "coverLetter"
C30_CoverLetterTabShown == [][C30_Step]_vars

====
